---------------------------- MODULE Spec2Model ----------------------------
(***************************************************************************)
(* A model of the netlist parser: the line-buffered Lexer (src/08.py and   *)
(* src/03.py), the recursive-descent reader Lexer.read_stream with the     *)
(* generator Lexer.stream, the CompInst / Net registries and the decoder   *)
(* Netlist.proc_1621 (src/08.py).                                          *)
(*                                                                         *)
(* Python strings are sequences of one-character strings, so that the      *)
(* tokenizer regular expression, the net-name patterns and the formatting  *)
(* of names are computed character by character.                           *)
(***************************************************************************)
EXTENDS Integers, Sequences, FiniteSets, TLC

VARIABLES
    ver,      \* which Lexer class runs: "08" (src/08.py) or "03" (src/03.py)
    f_in,     \* the input file: "open", or "eof" when readline() returns ''
    line,     \* Lexer.line, the line buffer
    l_num,    \* Lexer.l_num, the number of readline() calls made
    lex,      \* position of next_token: "idle", "loop", "ret", "RuntimeError"
    tok,      \* the value next_token returned last
    stack,    \* read_stream: the open read_ahead / read_stream frames
    result,   \* the value read_stream returned last to stream()
    rstat,    \* position of stream(): "none", "reading", "yield", "done", "SyntaxError"
    err,      \* the message of the SyntaxError raised
    opened,   \* number of '(' tokens consumed by the current read_stream call
    closed,   \* number of ')' tokens that ended a list in the current call
    compdb,   \* CompInst.db: name -> CompInst
    netdb,    \* Net.db: name -> Net
    call,     \* the constructor called last and its arguments
    exc,      \* the exception that ended the run: "none", "KeyError", "AssertionError"
    net07,    \* the Net object the constructor of src/07.py returned last
    dstat,    \* position of proc_1621: "none", "rows", "emit", "tlink", "done",
              \* "EX_DATAERR" (sys.exit), "KeyError"
    row,      \* the loop variable i of proc_1621
    vcmp,     \* the name of the component comp_by_pin returned last
    vlist,    \* proc_1621: the list of decoded bitstrings
    vdict,    \* proc_1621: bitstring -> row index
    vlitc,    \* proc_1621: bitstring -> mask of the ~TC tags
    out,      \* the lines printed on standard output
    design    \* the circuit the netlist file describes (input of the run)

lexVars  == <<ver, f_in, line, l_num, lex, tok>>
rdVars   == <<stack, result, rstat, err, opened, closed>>
grVars   == <<compdb, netdb, call, exc, net07>>
decVars  == <<dstat, row, vcmp, vlist, vdict, vlitc, out, design>>
vars     == <<lexVars, rdVars, grVars, decVars>>

---------------------------------------------------------------------------
(* Bounds of the model *)

LexMaxLen   == 3    \* characters of a physical line before its newline (SpecLex)
LexMaxLines == 2    \* physical lines of the input (SpecLex)
RdMaxLen    == 2    \* characters of a physical line before its newline (SpecRead)
RdMaxLines  == 2    \* physical lines of the input (SpecRead)
MaxNodes    == 2    \* nodes of one net expression (SpecGraph)
NRows       == 2    \* VLINK rows decoded (the 88 of range(88)) (SpecDec)
NTRows      == 1    \* TLINK rows checked (the 100 of range(100)) (SpecDec)
Width       == 2    \* bits of a row (the 11 of range(11)) (SpecDec)

---------------------------------------------------------------------------
(* Characters *)

DQ == "\""
BS == "\\"
NL == "\n"
BQ == "bq"      \* stands for the backquote character, which a string here cannot hold

\* the characters input lines are drawn from, besides the final newline
LexChars == {"(", "a", " ", DQ, ";", BS}
RdChars  == {"(", ")", "a", "'"}

\* \s of the regular expression, within the model's characters
WS == {" ", NL}

\* the one-character tokens: the class of parentheses, quote marks and comma
Specials == {"(", "'", BQ, ",", ")"}

\* the characters that end a bare atom (the complement of the atom class)
AtomStop == WS \cup {"(", "'", DQ, BQ, ",", ";", ")"}

Drop(s, n) == SubSeq(s, n + 1, Len(s))

\* the physical lines readline() may return: up to maxLen characters and the
\* newline, or (for the last line of a file) at least one character and none
LinesOf(chars, maxLen) ==
    LET body == UNION { [1..n -> chars] : n \in 0..maxLen }
    IN  { Append(b, NL) : b \in body } \cup (body \ {<<>>})

---------------------------------------------------------------------------
(* The tokenizer regular expression: leading whitespace, then group 1 (one *)
(* of: comma-at, a one-character token, a string literal, a comment, a run *)
(* of atom characters), then group 2 (the rest of the line).               *)

\* length of the longest prefix of s whose characters are all in S
RECURSIVE RunLen(_, _)
RunLen(s, S) ==
    IF s # <<>> /\ Head(s) \in S THEN 1 + RunLen(Tail(s), S) ELSE 0

\* length of the match of .* at the start of s ('.' matches all but newline)
RECURSIVE DotLen(_)
DotLen(s) ==
    IF s # <<>> /\ Head(s) # NL THEN 1 + DotLen(Tail(s)) ELSE 0

\* length of the match of the atom class, starred, at the start of s
RECURSIVE AtomLen(_)
AtomLen(s) ==
    IF s # <<>> /\ Head(s) \notin AtomStop THEN 1 + AtomLen(Tail(s)) ELSE 0

\* the string literal alternative, s[1] being the opening quote: a backslash
\* takes the next character with it (any but newline), any other character
\* but the quote is taken alone; the index of the closing
\* quote when scanning from index i, or 0 when the literal is not closed
RECURSIVE StrScan(_, _)
StrScan(s, i) ==
    IF i > Len(s) THEN 0
    ELSE IF s[i] = DQ THEN i
    ELSE IF s[i] = BS
         THEN IF i + 1 <= Len(s) /\ s[i + 1] # NL THEN StrScan(s, i + 2) ELSE 0
    ELSE StrScan(s, i + 1)

\* length of group 1 at the start of s (s has no leading whitespace); the
\* alternatives are tried in their order and the last one matches the empty string
TokLen(s) ==
    IF s = <<>> THEN 0
    ELSE IF Len(s) >= 2 /\ s[1] = "," /\ s[2] = "@" THEN 2
    ELSE IF s[1] \in Specials THEN 1
    ELSE IF s[1] = DQ /\ StrScan(s, 2) > 0 THEN StrScan(s, 2)
    ELSE IF s[1] = ";" THEN 1 + DotLen(Tail(s))
    ELSE AtomLen(s)

\* re.match(tokenizer, ln).groups(): <<token, rest of the line>>
TokenizerMatch(ln) ==
    LET s == Drop(ln, RunLen(ln, WS))
        n == TokLen(s)
        r == Drop(s, n)
    IN  <<SubSeq(s, 1, n), SubSeq(r, 1, DotLen(r))>>

---------------------------------------------------------------------------
(* Values *)

EofText == <<"#", "<", "e", "o", "f", "-", "o", "b", "j", "e", "c", "t", ">">>

\* a token: the object eof_object itself (eof), or a str matched by the regex
eof_object_tok == [eof |-> TRUE, text |-> EofText]
StrTok(s)      == [eof |-> FALSE, text |-> s]
NoTok          == [eof |-> FALSE, text |-> <<>>]

\* an expression: k is the Python type, v the text or the elements
Symbol(s)  == [k |-> "Symbol", v |-> s]
eof_object == Symbol(EofText)
NoValue    == [k |-> "none", v |-> <<>>]
List(es)   == [k |-> "list", v |-> es]

_quote      == Symbol(<<"q", "u", "o", "t", "e">>)
_quasiquote == Symbol(<<"q", "u", "a", "s", "i", "q", "u", "o", "t", "e">>)

\* src/03.py line 53
LNumLimit == 100

\* calls of next_token are followed until l_num passes LNumLimit
LNumCap == LNumLimit + 2

---------------------------------------------------------------------------
(* Lexer.next_token *)

\* f_in.readline(): '' at end of file, else the next physical line; a line
\* without its newline is the last one
ReadlineResults(lines, maxLines) ==
    IF f_in = "eof" \/ l_num >= maxLines THEN {<<>>}
    ELSE lines \cup {<<>>}

\* what the end-of-input branch does: src/08.py returns eof_object, src/03.py
\* raises RuntimeError once l_num has passed LNumLimit
AtEof(v, n) ==
    IF v = "03" /\ n > LNumLimit THEN "RuntimeError" ELSE "ret"

\* the record of a constructor call: the class, the name and the nodes given
Call(op, name, items) == [op |-> op, name |-> name, items |-> items]
NoCall == Call("none", <<>>, <<>>)

\* proc_1621 has not been called
InitNoDecode ==
    /\ dstat = "none"
    /\ row = 0
    /\ vcmp = <<>>
    /\ vlist = <<>>
    /\ vdict = <<>>
    /\ vlitc = <<>>
    /\ out = <<>>
    /\ design = <<>>

\* the registries are empty class attributes when the program starts
InitGraph ==
    /\ compdb = <<>>
    /\ netdb = <<>>
    /\ call = NoCall
    /\ exc = "none"
    /\ net07 = <<>>

\* a call of next_token by the code that uses the lexer
CallNextToken ==
    /\ rstat = "none"
    /\ lex \in {"idle", "ret"}
    /\ l_num < LNumCap
    /\ lex' = "loop"
    /\ tok' = NoTok
    /\ UNCHANGED <<ver, f_in, line, l_num, rdVars, grVars, decVars>>

\* one iteration of the while loop of next_token
NextTokenIter(lines, maxLines) ==
    /\ lex = "loop"
    /\ \E rl \in (IF line = <<>> THEN ReadlineResults(lines, maxLines)
                                ELSE {line}) :
         LET n == IF line = <<>> THEN l_num + 1 ELSE l_num
             m == TokenizerMatch(rl)
         IN  /\ l_num' = n
             /\ f_in' = IF line = <<>> /\ (rl = <<>> \/ rl[Len(rl)] # NL)
                        THEN "eof" ELSE f_in
             /\ IF rl = <<>>
                THEN /\ line' = <<>>
                     /\ lex' = AtEof(ver, n)
                     /\ tok' = IF AtEof(ver, n) = "ret" THEN eof_object_tok ELSE NoTok
                ELSE /\ line' = m[2]
                     /\ IF m[1] # <<>> /\ m[1][1] # ";"
                        THEN lex' = "ret" /\ tok' = StrTok(m[1])
                        ELSE lex' = "loop" /\ tok' = tok
    /\ UNCHANGED <<ver, rdVars, grVars, decVars>>

LexIter == NextTokenIter(LinesOf(LexChars, LexMaxLen), LexMaxLines)

InitLex ==
    /\ ver \in {"08", "03"}
    /\ f_in = "open"
    /\ line = <<>>
    /\ l_num = 0
    /\ lex = "idle"
    /\ tok = NoTok
    /\ stack = <<>>
    /\ result = NoValue
    /\ rstat = "none"
    /\ err = ""
    /\ opened = 0
    /\ closed = 0
    /\ InitGraph
    /\ InitNoDecode

NextLex == CallNextToken \/ LexIter

SpecLex == InitLex /\ [][NextLex]_vars

---------------------------------------------------------------------------
(* Lexer.atom, Lexer.read_stream, Lexer.stream *)

Digits == {"0", "1", "2", "3", "4", "5", "6", "7", "8", "9"}

DigitVal(c) ==
    CASE c = "0" -> 0 [] c = "1" -> 1 [] c = "2" -> 2 [] c = "3" -> 3
      [] c = "4" -> 4 [] c = "5" -> 5 [] c = "6" -> 6 [] c = "7" -> 7
      [] c = "8" -> 8 [] c = "9" -> 9

\* int() of a run of decimal digits
RECURSIVE DigitsVal(_)
DigitsVal(s) ==
    IF s = <<>> THEN 0
    ELSE 10 * DigitsVal(SubSeq(s, 1, Len(s) - 1)) + DigitVal(s[Len(s)])

AllDigits(s) == s # <<>> /\ \A i \in 1..Len(s) : s[i] \in Digits

\* int(token) succeeds: an optional sign and decimal digits
IsInt(t) ==
    \/ AllDigits(t)
    \/ (Len(t) >= 2 /\ t[1] \in {"+", "-"} /\ AllDigits(Tail(t)))

IntVal(t) ==
    IF t[1] = "-" THEN 0 - DigitsVal(Tail(t))
    ELSE IF t[1] = "+" THEN DigitsVal(Tail(t))
    ELSE DigitsVal(t)

\* float(token) succeeds, for the decimal-point forms: digits with one point
IsFloat(t) ==
    LET u == IF t # <<>> /\ t[1] \in {"+", "-"} THEN Tail(t) ELSE t
    IN  /\ Len(u) >= 2
        /\ \E i \in 1..Len(u) :
             /\ u[i] = "."
             /\ \A j \in (1..Len(u)) \ {i} : u[j] \in Digits

\* Lexer.atom: a string literal loses its quotes; else int, else float, else Sym
atom(t) ==
    IF t[1] = DQ THEN [k |-> "str", v |-> SubSeq(t, 2, Len(t) - 1)]
    ELSE IF IsInt(t) THEN [k |-> "int", v |-> IntVal(t)]
    ELSE IF IsFloat(t) THEN [k |-> "float", v |-> t]
    ELSE Symbol(t)

\* a frame of the reader: "list" is a read_ahead call collecting L after '(',
\* "quote" a read_ahead call waiting for the read_stream call it made
Frame(k, L) == [k |-> k, L |-> L]
Top(stk)    == stk[Len(stk)]
Pop(stk)    == SubSeq(stk, 1, Len(stk) - 1)

Raise(msg)  == [stack |-> <<>>, stat |-> "SyntaxError", err |-> msg,
                result |-> NoValue, op |-> 0, cl |-> 0]

\* a value v is returned to the frame on top of stk: a quote frame wraps it
\* and returns in turn, a list frame appends it to L and goes on, and with
\* no frame left read_stream returns it to stream()
RECURSIVE Deliver(_, _)
Deliver(v, stk) ==
    IF stk = <<>>
    THEN [stack |-> <<>>, stat |-> "returned", err |-> "", result |-> v,
          op |-> 0, cl |-> 0]
    ELSE IF Top(stk).k = "quote"
    THEN Deliver(List(<<Top(stk).L[1], v>>), Pop(stk))
    ELSE [stack |-> Append(Pop(stk), Frame("list", Append(Top(stk).L, v))),
          stat |-> "reading", err |-> "", result |-> NoValue, op |-> 0, cl |-> 0]

\* quotes[token]
QuoteSym(c) == IF c = "'" THEN _quote ELSE _quasiquote

\* a plausible slip: end of stream inside a list returns what was collected
ReadAheadEofEndsList(tk, stk) ==
    IF ~tk.eof /\ tk.text = <<"(">>
    THEN [stack |-> Append(stk, Frame("list", <<>>)), stat |-> "reading",
          err |-> "", result |-> NoValue, op |-> 1, cl |-> 0]
    ELSE IF ~tk.eof /\ tk.text = <<")">> THEN Raise("unexpected )")
    ELSE IF ~tk.eof /\ tk.text \in {<<"'">>, <<BQ>>}
    THEN [stack |-> Append(stk, Frame("quote", <<QuoteSym(tk.text[1])>>)),
          stat |-> "reading", err |-> "", result |-> NoValue, op |-> 0, cl |-> 0]
    ELSE IF tk.eof
    THEN IF stk # <<>> /\ Top(stk).k = "list"
         THEN Deliver(List(Top(stk).L), Pop(stk))
         ELSE Raise("unexpected EOF in list")
    ELSE Deliver(atom(tk.text), stk)

\* read_ahead(token), up to its next call of next_token
ReadAhead(tk, stk) ==
    IF ~tk.eof /\ tk.text = <<"(">>
    THEN [stack |-> Append(stk, Frame("list", <<>>)), stat |-> "reading",
          err |-> "", result |-> NoValue, op |-> 1, cl |-> 0]
    ELSE IF ~tk.eof /\ tk.text = <<")">> THEN Raise("unexpected )")
    ELSE IF ~tk.eof /\ tk.text \in {<<"'">>, <<BQ>>}
    THEN [stack |-> Append(stk, Frame("quote", <<QuoteSym(tk.text[1])>>)),
          stat |-> "reading", err |-> "", result |-> NoValue, op |-> 0, cl |-> 0]
    ELSE IF tk.eof THEN Raise("unexpected EOF in list")
    ELSE Deliver(atom(tk.text), stk)

\* what read_stream does with the token next_token returned: as token1 of a
\* read_stream call (no frame, or a quote frame on top) the end of stream is
\* returned as eof_object; in the loop of a list frame ')' returns L
ReadToken(tk, stk) ==
    IF stk = <<>> \/ Top(stk).k = "quote"
    THEN IF tk.eof THEN Deliver(eof_object, stk) ELSE ReadAhead(tk, stk)
    ELSE IF ~tk.eof /\ tk.text = <<")">>
         THEN [Deliver(List(Top(stk).L), Pop(stk)) EXCEPT !.cl = 1]
         ELSE ReadAhead(tk, stk)

\* tok == eof_object in stream(): Symbol is a str, compared by its text
PyEqEof(v) == v.k \in {"Symbol", "str"} /\ v.v = EofText

\* read_stream, from the return of next_token to the next call of next_token,
\* to the raise, or to the return to stream() and its yield or return
ReadStream ==
    /\ rstat = "reading"
    /\ lex = "ret"
    /\ LET r == ReadToken(tok, stack)
       IN  /\ stack' = r.stack
           /\ err' = r.err
           /\ opened' = opened + r.op
           /\ closed' = closed + r.cl
           /\ result' = IF r.stat = "returned" THEN r.result ELSE result
           /\ rstat' = CASE r.stat = "reading"     -> "reading"
                         [] r.stat = "SyntaxError" -> "SyntaxError"
                         [] r.stat = "returned"    ->
                              IF PyEqEof(r.result) THEN "done" ELSE "yield"
           /\ lex' = IF r.stat = "reading" THEN "loop" ELSE "idle"
    /\ UNCHANGED <<ver, f_in, line, l_num, tok, grVars, decVars>>

\* the consumer asks the generator for the next expression: read_stream is
\* called again
StreamNext ==
    /\ rstat = "yield"
    /\ rstat' = "reading"
    /\ lex' = "loop"
    /\ result' = NoValue
    /\ opened' = 0
    /\ closed' = 0
    /\ UNCHANGED <<ver, f_in, line, l_num, tok, stack, err, grVars, decVars>>

\* lines that spell the text of eof_object: as a bare atom, as a string
\* literal, and as the element of a list
MarkerLines ==
    { Append(EofText, NL),
      <<DQ>> \o EofText \o <<DQ, NL>>,
      <<"(">> \o EofText \o <<")", NL>> }

\* the lines of the files the reader is run on
RdLines == LinesOf(RdChars, RdMaxLen) \cup MarkerLines

RdIter == NextTokenIter(RdLines, RdMaxLines)

InitRead ==
    /\ ver = "08"
    /\ f_in = "open"
    /\ line = <<>>
    /\ l_num = 0
    /\ lex = "loop"
    /\ tok = NoTok
    /\ stack = <<>>
    /\ result = NoValue
    /\ rstat = "reading"
    /\ err = ""
    /\ opened = 0
    /\ closed = 0
    /\ InitGraph
    /\ InitNoDecode

NextRead == RdIter \/ ReadStream \/ StreamNext

SpecRead == InitRead /\ [][NextRead]_vars

---------------------------------------------------------------------------
(* CompInst and Net: the registries (src/08.py), Net of src/07.py *)

\* the lexer and the reader before they are used
InitIdleLexer ==
    /\ f_in = "open"
    /\ line = <<>>
    /\ l_num = 0
    /\ lex = "idle"
    /\ tok = NoTok
    /\ stack = <<>>
    /\ result = NoValue
    /\ rstat = "none"
    /\ err = ""
    /\ opened = 0
    /\ closed = 0

U1 == <<"U", "1">>
U2 == <<"U", "2">>
NA == <<"N", "A">>
NB == <<"N", "B">>

\* the names, values and pins the expressions of SpecGraph are drawn from
GCompNames  == {U1, U2}
GCompValues == {"10k"}
GNetNames   == {NA, NB}
GPins       == {"1", "2"}

\* Node(comp_ref, pin)
Node(r, p) == [comp_ref |-> r, pin |-> p]

GItemLists ==
    UNION { [1..n -> {Node(r, p) : r \in GCompNames, p \in GPins}] : n \in 0..MaxNodes }

\* a plausible slip: db_add without its assert overwrites the record
DbAddOverwrite(db, name, obj) ==
    [exc |-> "none", db |-> (name :> obj) @@ db]

\* db_add of CompInst and of Net: assert the name is new, then store
DbAdd(db, name, obj) ==
    IF name \in DOMAIN db
    THEN [exc |-> "AssertionError", db |-> db]
    ELSE [exc |-> "none", db |-> (name :> obj) @@ db]

\* CompInst.__init__: an object with no pin attached, then db_add
CompInstInit(cdb, name, value) ==
    DbAdd(cdb, name, [name |-> name, pins |-> <<>>, comp_value |-> value])

\* a plausible slip: set_pin_net skips a name the registry does not hold
SetPinNetSkipUnknown(cdb, cmp_name, pin, net_name) ==
    IF cmp_name \notin DOMAIN cdb
    THEN [exc |-> "none", db |-> cdb]
    ELSE [exc |-> "none",
          db |-> [cdb EXCEPT ![cmp_name].pins = (pin :> net_name) @@ @]]

\* CompInst.set_pin_net: cls.db[cmp_name] raises KeyError for an unknown name
SetPinNet(cdb, cmp_name, pin, net_name) ==
    IF cmp_name \notin DOMAIN cdb
    THEN [exc |-> "KeyError", db |-> cdb]
    ELSE [exc |-> "none",
          db |-> [cdb EXCEPT ![cmp_name].pins = (pin :> net_name) @@ @]]

\* a plausible slip: a node of a component already present replaces its pins
NodesAddReplace(nodes, ref, pin) ==
    (ref :> <<pin>>) @@ nodes

\* the body of the loop of Net.__init__ on self.nodes: append the pin to the
\* entry of the component, or make the entry
NodesAdd(nodes, ref, pin) ==
    IF ref \in DOMAIN nodes
    THEN [nodes EXCEPT ![ref] = Append(@, pin)]
    ELSE (ref :> <<pin>>) @@ nodes

\* the loop of Net.__init__ of src/08.py: it stops at the first KeyError of
\* set_pin_net and keeps what the earlier iterations have set
RECURSIVE NetLoop(_, _, _, _)
NetLoop(name, items, nodes, cdb) ==
    IF items = <<>>
    THEN [exc |-> "none", nodes |-> nodes, compdb |-> cdb]
    ELSE LET node == Head(items)
             n2   == NodesAdd(nodes, node.comp_ref, node.pin)
             sp   == SetPinNet(cdb, node.comp_ref, node.pin, name)
         IN  IF sp.exc # "none"
             THEN [exc |-> sp.exc, nodes |-> n2, compdb |-> cdb]
             ELSE NetLoop(name, Tail(items), n2, sp.db)

\* Net.__init__ of src/08.py: the loop, then db_add
NetInit(cdb, ndb, name, items) ==
    LET r == NetLoop(name, items, <<>>, cdb)
        a == DbAdd(ndb, name, [name |-> name, nodes |-> r.nodes])
    IN  IF r.exc # "none"
        THEN [exc |-> r.exc, compdb |-> r.compdb, netdb |-> ndb]
        ELSE [exc |-> a.exc, compdb |-> r.compdb, netdb |-> a.db]

\* Net.__init__ of src/07.py: the same loop without the registries
RECURSIVE NetInit07(_, _, _)
NetInit07(name, items, nodes) ==
    IF items = <<>>
    THEN [name |-> name, nodes |-> nodes]
    ELSE NetInit07(name, Tail(items),
                   NodesAdd(nodes, Head(items).comp_ref, Head(items).pin))

\* eval of a compInst expression; an exception ends the run
NewCompInst(name, value) ==
    /\ ver = "08"
    /\ exc = "none"
    /\ LET r == CompInstInit(compdb, name, value)
       IN  /\ compdb' = r.db
           /\ exc' = r.exc
    /\ call' = Call("CompInst", name, <<>>)
    /\ UNCHANGED <<lexVars, rdVars, netdb, net07, decVars>>

\* eval of a net expression; an exception ends the run
NewNet(name, items) ==
    /\ ver = "08"
    /\ exc = "none"
    /\ LET r == NetInit(compdb, netdb, name, items)
       IN  /\ compdb' = r.compdb
           /\ netdb' = r.netdb
           /\ exc' = r.exc
    /\ call' = Call("Net", name, items)
    /\ UNCHANGED <<lexVars, rdVars, net07, decVars>>

\* eval of a net expression by src/07.py
NewNet07(name, items) ==
    /\ ver = "07"
    /\ net07' = NetInit07(name, items, <<>>)
    /\ call' = Call("Net", name, items)
    /\ UNCHANGED <<lexVars, rdVars, compdb, netdb, exc, decVars>>

EvalCompInst == \E n \in GCompNames, v \in GCompValues : NewCompInst(n, v)
EvalNet      == \E n \in GNetNames, its \in GItemLists : NewNet(n, its)
EvalNet07    == \E n \in GNetNames, its \in GItemLists : NewNet07(n, its)

InitGraphSpec ==
    /\ ver \in {"08", "07"}
    /\ InitIdleLexer
    /\ InitGraph
    /\ InitNoDecode

NextGraph == EvalCompInst \/ EvalNet \/ EvalNet07

SpecGraph == InitGraphSpec /\ [][NextGraph]_vars

---------------------------------------------------------------------------
(* Netlist.comp_by_pin and Netlist.proc_1621 (a run without --verbose) *)

DigitChar(n) ==
    CASE n = 0 -> "0" [] n = 1 -> "1" [] n = 2 -> "2" [] n = 3 -> "3"
      [] n = 4 -> "4" [] n = 5 -> "5" [] n = 6 -> "6" [] n = 7 -> "7"
      [] n = 8 -> "8" [] n = 9 -> "9"

HexChar(n) ==
    CASE n < 10 -> DigitChar(n)
      [] n = 10 -> "A" [] n = 11 -> "B" [] n = 12 -> "C"
      [] n = 13 -> "D" [] n = 14 -> "E" [] n = 15 -> "F"

\* "%d" % n, n >= 0
RECURSIVE FmtD(_)
FmtD(n) ==
    IF n < 10 THEN <<DigitChar(n)>>
    ELSE Append(FmtD(n \div 10), DigitChar(n % 10))

\* "%02d" % n, n >= 0
Fmt02d(n) == IF n < 10 THEN <<"0", DigitChar(n)>> ELSE FmtD(n)

RECURSIVE FmtX(_)
FmtX(n) ==
    IF n < 16 THEN <<HexChar(n)>>
    ELSE Append(FmtX(n \div 16), HexChar(n % 16))

\* "%02X" % n, n >= 0
Fmt02X(n) == IF n < 16 THEN <<"0", HexChar(n)>> ELSE FmtX(n)

\* "VLINK_%02d" % n and "TLINK_%02d" % n
VLinkName(n) == <<"V", "L", "I", "N", "K", "_">> \o Fmt02d(n)
TLinkName(n) == <<"T", "L", "I", "N", "K", "_">> \o Fmt02d(n)

LC  == <<"L", "C">>
NLC == <<"~", "L", "C">>
NTC == <<"~", "T", "C">>

\* re.fullmatch of the prefix followed by one to maxd decimal digits
TagMatch(prefix, maxd, l) ==
    /\ Len(l) > Len(prefix)
    /\ Len(l) <= Len(prefix) + maxd
    /\ SubSeq(l, 1, Len(prefix)) = prefix
    /\ AllDigits(Drop(l, Len(prefix)))

\* int(l[len(prefix):])
TagBit(prefix, l) == DigitsVal(Drop(l, Len(prefix)))

\* A mask (seta, clra) is the set of the bits that are 1 in the Python int:
\* m |= 1 << k adds k, m & n is the intersection, m & (1 << j) asks j \in m.
RECURSIVE Pow2(_)
Pow2(k) == IF k = 0 THEN 1 ELSE 2 * Pow2(k - 1)

\* the int a mask stands for
RECURSIVE MaskVal(_)
MaskVal(m) ==
    IF m = {} THEN 0
    ELSE LET k == CHOOSE x \in m : \A y \in m : y <= x
         IN  Pow2(k) + MaskVal(m \ {k})

\* the components that are in nodes with the single pin p:
\* len(pins) == 1 and pins[0] == p
SolePin(nodes, p) ==
    { c \in DOMAIN nodes : Len(nodes[c]) = 1 /\ nodes[c][1] = p }

\* a plausible slip: any component that has pin p on the net is a match
CompByPinAnyPin(cdb, vnet, npin) ==
    LET S == { c \in DOMAIN vnet.nodes :
                 \E k \in 1..Len(vnet.nodes[c]) : vnet.nodes[c][k] = npin }
    IN  IF Cardinality(S) >= 2
        THEN [st |-> "EX_DATAERR", msg |-> "Duplicated component in net", comp |-> <<>>]
        ELSE IF S = {}
        THEN [st |-> "EX_DATAERR", msg |-> "No tranceiving component found in net",
              comp |-> <<>>]
        ELSE LET c == CHOOSE x \in S : TRUE
             IN  IF c \in DOMAIN cdb
                 THEN [st |-> "ok", msg |-> "", comp |-> c]
                 ELSE [st |-> "KeyError", msg |-> "", comp |-> <<>>]

\* Netlist.comp_by_pin: a second match exits, no match exits, else the
\* component of the one match is looked up in CompInst.db
CompByPin(cdb, vnet, npin) ==
    LET S == SolePin(vnet.nodes, npin)
    IN  IF Cardinality(S) >= 2
        THEN [st |-> "EX_DATAERR", msg |-> "Duplicated component in net", comp |-> <<>>]
        ELSE IF S = {}
        THEN [st |-> "EX_DATAERR", msg |-> "No tranceiving component found in net",
              comp |-> <<>>]
        ELSE LET c == CHOOSE x \in S : TRUE
             IN  IF c \in DOMAIN cdb
                 THEN [st |-> "ok", msg |-> "", comp |-> c]
                 ELSE [st |-> "KeyError", msg |-> "", comp |-> <<>>]

\* a plausible slip: the overlap of the masks is not tested
MaskConflictIgnored(seta, clra) == FALSE

\* seta & clra
MaskConflict(seta, clra) == seta \cap clra # {}

\* the loop over range(11): bit j is the character at position Width - j
BitString(seta, clra) ==
    [p \in 1..Width |->
        LET j == Width - p
        IN  IF j \in seta THEN "1" ELSE IF j \in clra THEN "0" ELSE "x"]

RowResult(st, msg, comp, bits, tc) ==
    [st |-> st, msg |-> msg, comp |-> comp, bits |-> bits, tc |-> tc]

\* the body of the first loop of proc_1621 for row n; self.items holds every
\* net of the file, as the netlist expression encloses them all
DecodeRow(cdb, ndb, n) ==
    IF VLinkName(n) \notin DOMAIN ndb
    THEN RowResult("EX_DATAERR", "Net not found in netlist", <<>>, <<>>, {})
    ELSE
    LET vnet == ndb[VLinkName(n)]
        r    == CompByPin(cdb, vnet, "1")
    IN
    IF r.st # "ok" THEN RowResult(r.st, r.msg, <<>>, <<>>, {})
    ELSE IF "3" \notin DOMAIN cdb[r.comp].pins
            \/ cdb[r.comp].pins["3"] \notin DOMAIN ndb
    THEN RowResult("KeyError", "", r.comp, <<>>, {})
    ELSE
    LET pnet == ndb[cdb[r.comp].pins["3"]]
        T    == SolePin(pnet.nodes, "3")
    IN
    IF \E c \in T : "2" \notin DOMAIN cdb[c].pins
    THEN RowResult("KeyError", "", r.comp, <<>>, {})
    ELSE
    LET clra == { TagBit(LC, cdb[c].pins["2"]) :
                    c \in { d \in T : TagMatch(LC, 2, cdb[d].pins["2"]) } }
        seta == { TagBit(NLC, cdb[c].pins["2"]) :
                    c \in { d \in T : TagMatch(NLC, 2, cdb[d].pins["2"]) } }
        V    == SolePin(vnet.nodes, "2")
    IN
    IF MaskConflict(seta, clra)
    THEN RowResult("conflict", "bitmask error", r.comp, <<>>, {})
    ELSE IF \E c \in V : "3" \notin DOMAIN cdb[c].pins
    THEN RowResult("KeyError", "", r.comp, <<>>, {})
    ELSE RowResult("ok", "", r.comp, BitString(seta, clra),
                   { TagBit(NTC, cdb[c].pins["3"]) :
                       c \in { d \in V : TagMatch(NTC, 1, cdb[d].pins["3"]) } })

\* a printed line: its kind, and the index, bitstring and value it shows
Line(k, idx, bits, val) == [k |-> k, idx |-> idx, bits |-> bits, val |-> val]

\* ord() of the characters of a bitstring
Ord(c) == CASE c = "0" -> 48 [] c = "1" -> 49 [] c = "x" -> 120

\* a < b for Python str
RECURSIVE StrLess(_, _)
StrLess(a, b) ==
    IF a = <<>> THEN b # <<>>
    ELSE IF b = <<>> THEN FALSE
    ELSE IF Ord(a[1]) # Ord(b[1]) THEN Ord(a[1]) < Ord(b[1])
    ELSE StrLess(Tail(a), Tail(b))

RECURSIVE InsertSorted(_, _)
InsertSorted(x, s) ==
    IF s = <<>> THEN <<x>>
    ELSE IF StrLess(x, s[1]) THEN <<x>> \o s
    ELSE <<s[1]>> \o InsertSorted(x, Tail(s))

\* a plausible slip: the list is printed in row order
SortListForgotten(s) == s

\* vlist.sort()
RECURSIVE SortList(_)
SortList(s) ==
    IF s = <<>> THEN <<>>
    ELSE InsertSorted(s[Len(s)], SortList(SubSeq(s, 1, Len(s) - 1)))

\* one iteration of the first loop of proc_1621
ProcRow ==
    /\ dstat = "rows"
    /\ row < NRows
    /\ LET d == DecodeRow(compdb, netdb, row)
       IN  /\ vcmp' = d.comp
           /\ CASE d.st = "EX_DATAERR" ->
                     /\ out' = Append(out, Line("error", VLinkName(row), <<>>, d.msg))
                     /\ dstat' = "EX_DATAERR"
                     /\ UNCHANGED <<row, vlist, vdict, vlitc>>
                [] d.st = "KeyError" ->
                     /\ dstat' = "KeyError"
                     /\ UNCHANGED <<row, vlist, vdict, vlitc, out>>
                [] d.st = "conflict" ->
                     /\ out' = Append(out, Line("bitmask", VLinkName(row), <<>>, d.msg))
                     /\ row' = row + 1
                     /\ UNCHANGED <<dstat, vlist, vdict, vlitc>>
                [] d.st = "ok" ->
                     /\ vlist' = Append(vlist, d.bits)
                     /\ vdict' = (d.bits :> row) @@ vdict
                     /\ vlitc' = (d.bits :> d.tc) @@ vlitc
                     /\ row' = row + 1
                     /\ UNCHANGED <<dstat, out>>
    /\ UNCHANGED <<lexVars, rdVars, grVars, design>>

\* after the first loop: sort, print the two blocks, reset vlist and vdict
Emit ==
    /\ dstat = "rows"
    /\ row = NRows
    /\ LET sorted == SortList(vlist)
       IN  out' = out
                  \o <<Line("header", <<>>, <<>>, "mcp1621 arrays 0/1")>>
                  \o [j \in 1..Len(sorted) |->
                        Line("assign", FmtD(vdict[sorted[j]]), sorted[j], <<>>)]
                  \o [j \in 1..Len(sorted) |->
                        Line("tc", <<>>, sorted[j], Fmt02X(MaskVal(vlitc[sorted[j]])))]
    /\ vlist' = <<>>
    /\ vdict' = <<>>
    /\ row' = 0
    /\ dstat' = "tlink"
    /\ UNCHANGED <<lexVars, rdVars, grVars, vcmp, vlitc, design>>

\* one iteration of the second loop of proc_1621; the function returns
\* after the last one
TLinkRow ==
    /\ dstat = "tlink"
    /\ row < NTRows
    /\ IF TLinkName(row) \notin DOMAIN netdb
       THEN /\ out' = Append(out, Line("error", TLinkName(row), <<>>,
                                        "Net not found in netlist"))
            /\ dstat' = "EX_DATAERR"
            /\ UNCHANGED <<row, vcmp>>
       ELSE LET r == CompByPin(compdb, netdb[TLinkName(row)], "1")
            IN  /\ vcmp' = r.comp
                /\ IF r.st = "ok"
                   THEN /\ row' = row + 1
                        /\ dstat' = IF row + 1 = NTRows THEN "done" ELSE "tlink"
                        /\ out' = out
                   ELSE /\ row' = row
                        /\ dstat' = r.st
                        /\ out' = IF r.st = "EX_DATAERR"
                                  THEN Append(out, Line("error", TLinkName(row), <<>>, r.msg))
                                  ELSE out
    /\ UNCHANGED <<lexVars, rdVars, grVars, vlist, vdict, vlitc, design>>

(* The netlist files of the decoder runs.  A file describes a matrix: row r
   has a strobe component D attached by pin 1 to VLINK_r, by pin 3 to the
   product net PL and by pin 2 to GND; a tag component Q per bit, attached
   by pin 3 to PL and by pin 2 to an LC or ~LC net; a component R per
   secondary bit, attached by pin 2 to VLINK_r and by pin 3 to a ~TC net.
   TLINK_j has a component E attached by pin 1.  One row of a file may
   depart from this in the way its fault names: the VLINK or TLINK net is
   missing, has no strobe component, has two, has the strobe attached by
   pins 1 and 2 (extrapin), has a further component attached by pins 1 and
   2 (shadow), or the strobe has no pin 3 (nopin3). *)

Bits   == 0..(Width - 1)
TCBits == {0}

RowFaults  == {"missing", "nostrobe", "twostrobe", "extrapin", "shadow", "nopin3"}
TRowFaults == {"tmissing", "tnostrobe", "ttwostrobe"}

DName(r)  == <<"D", DigitChar(r)>>
D2Name(r) == <<"D", DigitChar(r), "b">>
XName(r)  == <<"X", DigitChar(r)>>
QName(r, k, b) == <<"Q", DigitChar(r), k, DigitChar(b)>>
RName(r, t) == <<"R", DigitChar(r), DigitChar(t)>>
EName(j)  == <<"E", DigitChar(j)>>
E2Name(j) == <<"E", DigitChar(j), "b">>
PLName(r) == <<"P", "L", DigitChar(r)>>
GND == <<"G", "N", "D">>
LCName(b)  == LC \o FmtD(b)
NLCName(b) == NLC \o FmtD(b)
NTCName(t) == NTC \o FmtD(t)

\* the tags of a row: bits set, bits cleared, secondary bits; at most two
\* tag components in a row
RowTags ==
    { rt \in { [s |-> s, c |-> c, tc |-> t] :
                 s \in SUBSET Bits, c \in SUBSET Bits, t \in SUBSET TCBits } :
        Cardinality(rt.s) + Cardinality(rt.c) <= 2 }

PlainRow == [s |-> {}, c |-> {}, tc |-> {}]

Design(rows, fault, frow) == [rows |-> rows, fault |-> fault, frow |-> frow]

\* files without fault, with at most two rows that have tags; files with
\* one faulty VLINK or TLINK row, their rows without tag
Designs ==
    { Design(rows, "none", 0) :
        rows \in { f \in [0..(NRows - 1) -> RowTags] :
                     Cardinality({ r \in DOMAIN f : f[r] # PlainRow }) <= 2 } }
    \cup { Design([r \in 0..(NRows - 1) |-> PlainRow], k, r0) :
             k \in RowFaults, r0 \in 0..(NRows - 1) }
    \cup { Design([r \in 0..(NRows - 1) |-> PlainRow], k, j) :
             k \in TRowFaults, j \in 0..(NTRows - 1) }

RowFault(d, r) == IF d.fault \in RowFaults /\ d.frow = r THEN d.fault ELSE "none"
TRowFault(d, j) ==
    IF d.fault \in TRowFaults /\ d.frow = j THEN d.fault ELSE "none"

\* the compInst expressions of a file, as the set of their names
DesignComps(d) ==
    UNION { {DName(r)}
            \cup (IF RowFault(d, r) = "twostrobe" THEN {D2Name(r)} ELSE {})
            \cup (IF RowFault(d, r) = "shadow" THEN {XName(r)} ELSE {})
            \cup { QName(r, "s", b) : b \in d.rows[r].s }
            \cup { QName(r, "c", b) : b \in d.rows[r].c }
            \cup { RName(r, t) : t \in d.rows[r].tc } : r \in 0..(NRows - 1) }
    \cup UNION { {EName(j)}
                 \cup (IF TRowFault(d, j) = "ttwostrobe" THEN {E2Name(j)} ELSE {})
                 : j \in 0..(NTRows - 1) }

NetExp(name, nodes) == [name |-> name, nodes |-> nodes]

\* the net expressions of a file, each with the set of its nodes
DesignNets(d) ==
    LET R == 0..(NRows - 1)
        vlink(r) ==
            LET fk == RowFault(d, r)
            IN  (IF fk = "nostrobe" THEN {} ELSE {Node(DName(r), "1")})
                \cup (IF fk = "extrapin" THEN {Node(DName(r), "2")} ELSE {})
                \cup (IF fk = "twostrobe" THEN {Node(D2Name(r), "1")} ELSE {})
                \cup (IF fk = "shadow"
                      THEN {Node(XName(r), "1"), Node(XName(r), "2")} ELSE {})
                \cup { Node(RName(r, t), "2") : t \in d.rows[r].tc }
        tlink(j) ==
            LET fk == TRowFault(d, j)
            IN  (IF fk = "tnostrobe" THEN {Node(EName(j), "2")}
                                     ELSE {Node(EName(j), "1")})
                \cup (IF fk = "ttwostrobe" THEN {Node(E2Name(j), "1")} ELSE {})
    IN  { NetExp(VLinkName(r), vlink(r)) : r \in { x \in R : RowFault(d, x) # "missing" } }
        \cup { NetExp(PLName(r),
                      (IF RowFault(d, r) = "nopin3" THEN {} ELSE {Node(DName(r), "3")})
                      \cup { Node(QName(r, "s", b), "3") : b \in d.rows[r].s }
                      \cup { Node(QName(r, "c", b), "3") : b \in d.rows[r].c }) : r \in R }
        \cup { NetExp(GND, { Node(DName(r), "2") :
                               r \in { x \in R : RowFault(d, x) # "extrapin" } }) }
        \cup { NetExp(NLCName(b), { Node(QName(r, "s", b), "2") :
                                     r \in { x \in R : b \in d.rows[x].s } }) :
                 b \in { y \in Bits : \E x \in R : y \in d.rows[x].s } }
        \cup { NetExp(LCName(b), { Node(QName(r, "c", b), "2") :
                                    r \in { x \in R : b \in d.rows[x].c } }) :
                 b \in { y \in Bits : \E x \in R : y \in d.rows[x].c } }
        \cup { NetExp(NTCName(t), { Node(RName(r, t), "3") :
                                     r \in { x \in R : t \in d.rows[x].tc } }) :
                 t \in { y \in TCBits : \E x \in R : y \in d.rows[x].tc } }
        \cup { NetExp(TLinkName(j), tlink(j)) :
                 j \in { x \in 0..(NTRows - 1) : TRowFault(d, x) # "tmissing" } }

\* the elements of a set in the order they stand in the file
RECURSIVE FileOrder(_)
FileOrder(S) ==
    IF S = {} THEN <<>>
    ELSE LET x == CHOOSE y \in S : TRUE
         IN  <<x>> \o FileOrder(S \ {x})

\* eval of the compInst expressions of a file, one after the other
RECURSIVE EvalComps(_, _)
EvalComps(names, cdb) ==
    IF names = <<>> THEN cdb
    ELSE EvalComps(Tail(names), CompInstInit(cdb, Head(names), "10k").db)

\* eval of the net expressions of a file, one after the other
RECURSIVE EvalNets(_, _)
EvalNets(nets, g) ==
    IF nets = <<>> THEN g
    ELSE LET r == NetInit(g.compdb, g.netdb, Head(nets).name,
                          FileOrder(Head(nets).nodes))
         IN  EvalNets(Tail(nets),
                      [exc |-> IF g.exc # "none" THEN g.exc ELSE r.exc,
                       compdb |-> r.compdb, netdb |-> r.netdb])

\* the registries after the main program has evaluated the file
EvalFile(d) ==
    EvalNets(FileOrder(DesignNets(d)),
             [exc |-> "none", compdb |-> EvalComps(FileOrder(DesignComps(d)), <<>>),
              netdb |-> <<>>])

\* process_netlist calls proc_1621 on the Netlist of an evaluated file
InitDec ==
    /\ ver = "08"
    /\ InitIdleLexer
    /\ design \in Designs
    /\ LET g == EvalFile(design)
       IN  /\ compdb = g.compdb
           /\ netdb = g.netdb
           /\ exc = g.exc
    /\ call = NoCall
    /\ net07 = <<>>
    /\ dstat = "rows"
    /\ row = 0
    /\ vcmp = <<>>
    /\ vlist = <<>>
    /\ vdict = <<>>
    /\ vlitc = <<>>
    /\ out = <<>>

NextDec == ProcRow \/ Emit \/ TLinkRow

SpecDec == InitDec /\ [][NextDec]_vars

---------------------------------------------------------------------------
\* C1: once the input is exhausted (the line buffer is empty and readline
\* returns the empty string), the iteration of next_token that finds this
\* returns eof_object: it returns no token and raises nothing, whatever the
\* number of calls made before and the number of lines read.
C1_EofIdempotent ==
    [][(lex = "loop" /\ line = <<>> /\ f_in = "eof")
          => (lex' = "ret" /\ tok' = eof_object_tok)]_vars

\* C3: every iteration of the loop of next_token that does not return leaves
\* a shorter line buffer or has read a new line: with a line in the buffer,
\* the match either yields a token to return or a strictly shorter rest.
C3_IterationProgress ==
    (lex = "loop" /\ line # <<>>) =>
        LET m == TokenizerMatch(line)
        IN  \/ (m[1] # <<>> /\ m[1][1] # ";")
            \/ Len(m[2]) < Len(line)

ListOpen(stk) == \E i \in 1..Len(stk) : stk[i].k = "list"

\* C2: read_stream returns a value only when every '(' it consumed was closed
\* by a ')'; a ')' read with no list open raises SyntaxError 'unexpected )';
\* the end of stream read while a list is open raises SyntaxError 'unexpected
\* EOF in list', at once or after the quote frames above the list returned;
\* a raise returns no value.
C2_Balanced ==
    /\ [](rstat \in {"yield", "done"} => opened = closed)
    /\ [](rstat = "SyntaxError" => (result.k = "none" /\ stack = <<>>))
    /\ [][(rstat = "reading" /\ lex = "ret" /\ ~tok.eof /\ tok.text = <<")">>
             /\ ~ListOpen(stack))
          => (rstat' = "SyntaxError" /\ err' = "unexpected )")]_vars
    /\ [][(rstat = "reading" /\ lex = "ret" /\ tok.eof /\ ListOpen(stack))
          => \/ (rstat' = "SyntaxError" /\ err' = "unexpected EOF in list")
             \/ (rstat' = "reading" /\ ListOpen(stack')
                   /\ Len(stack') < Len(stack))]_vars

\* C2 witness: the end of stream was read two lists deep and raised
C2_Witness ==
    rstat = "SyntaxError" /\ err = "unexpected EOF in list" /\ opened - closed >= 2

\* C4: a CompInst whose name is registered fails and leaves the component
\* registry as it was; a Net whose name is registered fails and leaves the
\* net registry as it was; a construction that succeeds adds its own name
\* and leaves the record of every other name untouched.
C4_UniqueNames ==
    /\ [][(ver = "08" /\ call'.op = "CompInst") =>
            IF call'.name \in DOMAIN compdb
            THEN exc' = "AssertionError" /\ compdb' = compdb
            ELSE /\ exc' = "none"
                 /\ DOMAIN compdb' = DOMAIN compdb \cup {call'.name}
                 /\ compdb'[call'.name].pins = <<>>
                 /\ \A m \in DOMAIN compdb : compdb'[m] = compdb[m]]_vars
    /\ [][(ver = "08" /\ call'.op = "Net") =>
            IF call'.name \in DOMAIN netdb
            THEN exc' # "none" /\ netdb' = netdb
            ELSE /\ \A m \in DOMAIN netdb : netdb'[m] = netdb[m]
                 /\ DOMAIN netdb' = IF exc' = "none"
                                    THEN DOMAIN netdb \cup {call'.name}
                                    ELSE DOMAIN netdb]_vars

\* C4 witness: a Net was constructed under a name the registry already held
C4_Witness ==
    call.op = "Net" /\ exc = "AssertionError" /\ call.name \in DOMAIN netdb

\* C5: after nets were constructed without error, every pin a registered Net
\* lists for a component is mapped to that Net by the component.
C5_CrossReference ==
    (ver = "08" /\ exc = "none") =>
        \A N \in DOMAIN netdb :
            \A C \in DOMAIN netdb[N].nodes :
                \A i \in 1..Len(netdb[N].nodes[C]) :
                    LET p == netdb[N].nodes[C][i]
                    IN  /\ C \in DOMAIN compdb
                        /\ p \in DOMAIN compdb[C].pins
                        /\ compdb[C].pins[p] = N

\* the pins of the nodes of its whose reference is C, in the order of its
PinsFor(its, C) ==
    LET sel == SelectSeq(its, LAMBDA nd : nd.comp_ref = C)
    IN  [i \in 1..Len(sel) |-> sel[i].pin]

NodesAsListed(nodes, its) ==
    /\ DOMAIN nodes = { its[i].comp_ref : i \in 1..Len(its) }
    /\ \A C \in DOMAIN nodes : nodes[C] = PinsFor(its, C)

\* C10: the nodes of a constructed Net have as keys the component references
\* of the node list, and under each key the pins of that component's nodes in
\* the order of the list, repeated pins kept (src/08.py and src/07.py).
C10_Aggregation ==
    [][/\ (ver = "08" /\ call'.op = "Net" /\ exc' = "none")
            => NodesAsListed(netdb'[call'.name].nodes, call'.items)
       /\ (ver = "07" /\ call'.op = "Net")
            => NodesAsListed(net07'.nodes, call'.items)]_vars

\* C10 witness: a registered net holds the same pin of one component twice
C10_Witness ==
    \E N \in DOMAIN netdb : \E C \in DOMAIN netdb[N].nodes :
        Len(netdb[N].nodes[C]) >= 2 /\ netdb[N].nodes[C][1] = netdb[N].nodes[C][2]


---------------------------------------------------------------------------
(* Claims about Netlist.comp_by_pin and Netlist.proc_1621 *)

\* comp_by_pin is called in this state, on the net QueriedNet
CompByPinCalled ==
    \/ dstat = "rows" /\ row < NRows /\ VLinkName(row) \in DOMAIN netdb
    \/ dstat = "tlink" /\ row < NTRows /\ TLinkName(row) \in DOMAIN netdb

QueriedNet ==
    IF dstat = "rows" THEN netdb[VLinkName(row)] ELSE netdb[TLinkName(row)]

\* the components whose pins on the net are the pin p and no other
SoleMatches(net, p) == { c \in DOMAIN net.nodes : net.nodes[c] = <<p>> }

\* the components that have the pin p on the net, whatever else they have
AnyMatches(net, p) ==
    { c \in DOMAIN net.nodes :
        \E k \in 1..Len(net.nodes[c]) : net.nodes[c][k] = p }

\* C6 (amended): comp_by_pin returns a component only when exactly one
\* component of vnet.nodes has npin as its only pin on the net, and it
\* returns that one; with no such component, or two or more, the run ends
\* with the data-error status.  A component that has npin together with
\* other pins on the net is not counted.
C6_SoleMatch ==
    [][CompByPinCalled =>
         LET S == SoleMatches(QueriedNet, "1")
         IN  IF Cardinality(S) = 1
             THEN vcmp' \in S /\ dstat' # "EX_DATAERR"
             ELSE vcmp' = <<>> /\ dstat' = "EX_DATAERR"]_vars

\* C6 witness: comp_by_pin has returned the strobe of the row before, and
\* another component has pin 1 and a second pin on the same net
C6_Witness ==
    /\ dstat = "rows"
    /\ row >= 1
    /\ VLinkName(row - 1) \in DOMAIN netdb
    /\ LET net == netdb[VLinkName(row - 1)]
       IN  /\ vcmp \in SoleMatches(net, "1")
           /\ AnyMatches(net, "1") \ SoleMatches(net, "1") # {}

\* C6 as stated: the match counts every component that has pin npin on the
\* net, regardless of the other pins it has there
C6_AnyPinMatch ==
    [][CompByPinCalled =>
         LET S == AnyMatches(QueriedNet, "1")
         IN  IF Cardinality(S) = 1
             THEN vcmp' \in S /\ dstat' # "EX_DATAERR"
             ELSE vcmp' = <<>> /\ dstat' = "EX_DATAERR"]_vars

IsAssign(l) == l.k = "assign"
IsTc(l) == l.k = "tc"
AssignBlock == SelectSeq(out, IsAssign)
LookupBlock == SelectSeq(out, IsTc)
HeaderPrinted == \E j \in 1..Len(out) : out[j].k = "header"

\* what the file says of row r: its masks overlap, its bitstring (bit j at
\* position Width - j), its secondary value in two hexadecimal digits
RowOverlaps(r) == design.rows[r].s \cap design.rows[r].c # {}
RowBits(r) ==
    [p \in 1..Width |->
        IF (Width - p) \in design.rows[r].s THEN "1"
        ELSE IF (Width - p) \in design.rows[r].c THEN "0" ELSE "x"]
RowSecondary(r) == Fmt02X(MaskVal(design.rows[r].tc))
DecodedRows == { r \in 0..(NRows - 1) : ~RowOverlaps(r) }

\* the last of the rows K that has the bitstring b
LastWith(K, b) ==
    CHOOSE r \in K : RowBits(r) = b /\ \A q \in K : RowBits(q) = b => q <= r

\* the two blocks are those of a run over the rows K alone: a line per row
\* of K under its bitstring, with the index and the secondary value that the
\* rows of K record for that bitstring
BlocksOfRows(K) ==
    /\ Len(AssignBlock) = Cardinality(K)
    /\ Len(LookupBlock) = Cardinality(K)
    /\ \A r \in K :
         Cardinality({ j \in 1..Len(AssignBlock) : AssignBlock[j].bits = RowBits(r) })
           = Cardinality({ q \in K : RowBits(q) = RowBits(r) })
    /\ \A j \in 1..Len(AssignBlock) :
         /\ \E r \in K : RowBits(r) = AssignBlock[j].bits
         /\ AssignBlock[j].idx = FmtD(LastWith(K, AssignBlock[j].bits))
         /\ LookupBlock[j].bits = AssignBlock[j].bits
         /\ LookupBlock[j].val = RowSecondary(LastWith(K, AssignBlock[j].bits))

\* C7: a row whose set mask and clear mask share a bit is logged, adds
\* nothing to vlist, vdict and vlitc, and the loop goes on with the next row;
\* the printed blocks are those of the rows without overlap alone.
C7_ConflictIsolation ==
    /\ [][(dstat = "rows" /\ row < NRows /\ RowOverlaps(row)) =>
            /\ vlist' = vlist /\ vdict' = vdict /\ vlitc' = vlitc
            /\ dstat' = "rows" /\ row' = row + 1
            /\ out' = Append(out, Line("bitmask", VLinkName(row), <<>>,
                                       "bitmask error"))]_vars
    /\ [](HeaderPrinted => BlocksOfRows(DecodedRows))

\* C7 witness: a finished run that logged a conflict and printed a line of
\* another row
C7_Witness ==
    /\ dstat = "done"
    /\ \E j \in 1..Len(out) : out[j].k = "bitmask"
    /\ AssignBlock # <<>>

\* C8: when the output step is reached, the assign block has exactly one
\* line for each row decoded without conflict, with the index and the
\* bitstring of that row, and the lookup block has a line with the
\* bitstring and the secondary value of that row.
C8_LinePerRow ==
    HeaderPrinted =>
        /\ Len(AssignBlock) = Cardinality(DecodedRows)
        /\ \A r \in DecodedRows :
             /\ Cardinality({ j \in 1..Len(AssignBlock) :
                                /\ AssignBlock[j].idx = FmtD(r)
                                /\ AssignBlock[j].bits = RowBits(r) }) = 1
             /\ \E j \in 1..Len(LookupBlock) :
                  /\ LookupBlock[j].bits = RowBits(r)
                  /\ LookupBlock[j].val = RowSecondary(r)

\* the order of the characters of a bitstring the claim names
Rank(c) == CASE c = "0" -> 0 [] c = "1" -> 1 [] c = "x" -> 2

\* a <= b in lexicographic order, for bitstrings of the same length
BitsLeq(a, b) ==
    \/ a = b
    \/ \E k \in 1..Len(a) :
         /\ \A m \in 1..(k - 1) : a[m] = b[m]
         /\ Rank(a[k]) < Rank(b[k])

\* C9: the lines of the assign block are in non-decreasing lexicographic
\* order of their bitstrings, the lookup block has the same bitstrings in the
\* same order, and every line of it comes after the assign block.
C9_SortedBlocks ==
    /\ \A j \in 1..(Len(AssignBlock) - 1) :
         BitsLeq(AssignBlock[j].bits, AssignBlock[j + 1].bits)
    /\ Len(LookupBlock) = Len(AssignBlock)
    /\ \A j \in 1..Len(AssignBlock) : LookupBlock[j].bits = AssignBlock[j].bits
    /\ \A a, b \in 1..Len(out) :
         (a < b /\ out[a].k = "tc") => out[b].k # "assign"

\* C9 witness: both blocks are printed and the line of a later row stands
\* before the line of an earlier row with another bitstring
C9_Witness ==
    /\ HeaderPrinted
    /\ LookupBlock # <<>>
    /\ \E j, k \in 1..Len(AssignBlock) : \E r0, r1 \in 0..(NRows - 1) :
         /\ j < k /\ r0 < r1
         /\ AssignBlock[j].idx = FmtD(r1)
         /\ AssignBlock[k].idx = FmtD(r0)
         /\ AssignBlock[j].bits # AssignBlock[k].bits

---------------------------------------------------------------------------
(* Claims about the order of the file and about failed constructions *)

\* the component references of a node list
RefsOf(its) == { its[k].comp_ref : k \in 1..Len(its) }

\* C11: the construction of a Net with a node whose component reference is
\* not in the component registry raises KeyError and leaves the net registry
\* as it was; no registered Net has a node of an unregistered component.
C11_FileOrder ==
    /\ [][(ver = "08" /\ call'.op = "Net"
              /\ RefsOf(call'.items) \ DOMAIN compdb # {}) =>
            (exc' = "KeyError" /\ netdb' = netdb)]_vars
    /\ [](\A N \in DOMAIN netdb : DOMAIN netdb[N].nodes \subseteq DOMAIN compdb)

\* C11 witness: a Net whose second node names an unregistered component was
\* constructed after a component was registered, and raised KeyError
C11_Witness ==
    /\ call.op = "Net"
    /\ exc = "KeyError"
    /\ compdb # <<>>
    /\ Len(call.items) >= 2
    /\ call.items[1].comp_ref \in DOMAIN compdb
    /\ call.items[2].comp_ref \notin DOMAIN compdb
    /\ call.name \notin DOMAIN netdb

\* C14: a Net construction that raises leaves the pins of every registered
\* component and both registries as they were before it started.
C14_FailedNetNoEffect ==
    [][(ver = "08" /\ call'.op = "Net" /\ exc' # "none") =>
         (compdb' = compdb /\ netdb' = netdb)]_vars

---------------------------------------------------------------------------
(* Claims about the end of Lexer.stream *)

\* C13: stream() ends only when the tokenizer is exhausted: the value it
\* takes for the end-of-stream marker is the one read_stream returns for the
\* end-of-stream token, never an expression read from the text of the input.
C13_StreamEndsAtEof ==
    [][(rstat = "reading" /\ rstat' = "done") => tok.eof]_vars

---------------------------------------------------------------------------
(* Claims about the end of Netlist.proc_1621 *)

\* C12: a run of proc_1621 that ends with a fatal structural error, in the
\* first or in the second pass, has printed no assign line and no lookup
\* line.
C12_NoPartialResult ==
    dstat = "EX_DATAERR" => (AssignBlock = <<>> /\ LookupBlock = <<>>)

====
